---- MODULE Spec2Model ----
(***************************************************************************)
(* A model of the artifact generators of src/blade/toolchain.py:           *)
(*   generate_one_jar              (the one-jar merge)                     *)
(*   generate_package_entry        (zip / tar packages with a manifest)    *)
(*   generate_python_binary_entry  (the self-executing python archive)     *)
(*   generate_resource_index       (the embedded-resource index)           *)
(* Each generator is one specification: its arguments and the files it      *)
(* reads are chosen in the initial state, its loops and statements are the *)
(* actions.  Archive names are sequences of characters wherever the code   *)
(* looks at their characters (endswith, startswith, lower, upper).         *)
(***************************************************************************)
EXTENDS Integers, Sequences, FiniteSets, TLC

VARIABLES
    \* generate_one_jar
    jarfs,          \* the jar files on disk: path -> the set of its entry names
    bootjar,        \* argument: path of the boot runtime jar
    main_class,     \* argument: the entry class name
    main_jar,       \* argument: path of the main jar
    jars,           \* argument: the dependency jars, in listed order
    onejar,         \* the entries written to the output jar, in order
    jar_path_set,   \* the names marked as seen
    pcJar,          \* the statement generate_one_jar is at
    jarIdx,         \* the position of the loop at pcJar
    \* generate_package_entry
    pkgfs,          \* the files on disk: path -> content
    pkg_args,       \* argument: the flat list, path then sources then destinations
    pkg_archive,    \* the archive being written: its format and entries
    pkg_manifest,   \* the manifest lines collected so far
    pkg_suffix,     \* the tar suffix the dispatch settled on
    pcPkg,          \* the statement generate_package_entry is at
    pkgIdx,         \* the position of the loop over the sources
    \* generate_python_binary_entry
    now,            \* the wall clock
    py_args,        \* arguments: the main entry and the library manifests
    pybin,          \* the entries written to the zip archive, in order
    pyfile,         \* the bytes of the output file
    dirs,           \* the directory prefixes met
    dirs_with_init_py,  \* the directories a library gave an __init__.py
    zip_content,    \* the bytes read back from the output file
    pcPy,           \* the statement generate_python_binary_entry is at
    pyIdx,          \* the position of the loops over libraries and sources
    py_run,         \* which run of the generator this is
    py_first,       \* the output file the first run left
    \* generate_resource_index
    res_args,       \* arguments: name, path and the sources
    h,              \* the lines printed to the header
    c,              \* the lines printed to the source file
    pcRes,          \* the statement generate_resource_index is at
    resIdx          \* the position of the loop over the sources

jarVars == <<jarfs, bootjar, main_class, main_jar, jars, onejar, jar_path_set,
             pcJar, jarIdx>>

pkgVars == <<pkgfs, pkg_args, pkg_archive, pkg_manifest, pkg_suffix, pcPkg, pkgIdx>>

pyVars == <<now, py_args, pybin, pyfile, dirs, dirs_with_init_py, zip_content,
            pcPy, pyIdx, py_run, py_first>>

resVars == <<res_args, h, c, pcRes, resIdx>>

vars == <<jarVars, pkgVars, pyVars, resVars>>

\* what a generator leaves alone: the state of the others
NotJar == <<pkgVars, pyVars, resVars>>
NotPkg == <<jarVars, pyVars, resVars>>
NotPy == <<jarVars, pkgVars, resVars>>
NotRes == <<jarVars, pkgVars, pyVars>>

----------------------------------------------------------------------------
(* Bounds of the model. *)

\* dependency jars listed on one command line
MaxDeps == 2
\* entries in all the jars one run reads, together
MaxEntries == 3
\* (source, destination) pairs of one package
MaxPairs == 2
\* library manifests of one python binary
MaxLibs == 2
\* source files in all the library manifests of one python binary, together
MaxSrcs == 2
\* the last reading of the wall clock
MaxClock == 2
\* resource files of one resource index
MaxResources == 3

----------------------------------------------------------------------------
(* Strings as the code sees them: sequences of characters. *)

Uppers == <<"A","B","C","D","E","F","G","H","I","J","K","L","M",
            "N","O","P","Q","R","S","T","U","V","W","X","Y","Z">>
Lowers == <<"a","b","c","d","e","f","g","h","i","j","k","l","m",
            "n","o","p","q","r","s","t","u","v","w","x","y","z">>

lower_ch(ch) ==
    IF \E i \in 1..26 : Uppers[i] = ch
    THEN Lowers[CHOOSE i \in 1..26 : Uppers[i] = ch] ELSE ch

upper_ch(ch) ==
    IF \E i \in 1..26 : Lowers[i] = ch
    THEN Uppers[CHOOSE i \in 1..26 : Lowers[i] = ch] ELSE ch

lower(s) == [i \in 1..Len(s) |-> lower_ch(s[i])]

upper(s) == [i \in 1..Len(s) |-> upper_ch(s[i])]

endswith(s, suffix) ==
    /\ Len(s) >= Len(suffix)
    /\ SubSeq(s, Len(s) - Len(suffix) + 1, Len(s)) = suffix

startswith(s, prefix) ==
    /\ Len(s) >= Len(prefix)
    /\ SubSeq(s, 1, Len(prefix)) = prefix

\* the index of the last "/" of p, 0 when it has none
LastSlash(p) ==
    IF \E i \in 1..Len(p) : p[i] = "/"
    THEN CHOOSE i \in 1..Len(p) : p[i] = "/" /\ \A j \in (i+1)..Len(p) : p[j] # "/"
    ELSE 0

basename(p) == SubSeq(p, LastSlash(p) + 1, Len(p))

path_join(a, b) ==
    IF startswith(b, <<"/">>) THEN b
    ELSE IF a = <<>> \/ endswith(a, <<"/">>) THEN a \o b
    ELSE a \o <<"/">> \o b

----------------------------------------------------------------------------
(* generate_one_jar: the literals of the code. *)

S_manifest_mf == <<"m","a","n","i","f","e","s","t",".","m","f">>
S_dot_class == <<".","c","l","a","s","s">>
S_META_INF == <<"M","E","T","A","-","I","N","F">>
S_MANIFEST_MF == <<"M","A","N","I","F","E","S","T",".","M","F">>
S_main == <<"m","a","i","n">>
S_lib == <<"l","i","b">>

ManifestName == path_join(S_META_INF, S_MANIFEST_MF)

ManifestText(cls) ==
    << "Manifest-Version: 1.0",
       "Main-Class: com.simontuffs.onejar.Boot",
       "One-Jar-Main-Class: " \o cls,
       "",
       "" >>

(* The inputs: jar files and what they hold. *)

N_x == <<"x">>
N_AppClass == <<"A",".","c","l","a","s","s">>
N_metainfo == <<"m","e","t","a","-","i","n","f","o">>
N_confmf == <<"c","/","M","a","n","i","f","e","s","t",".","m","f">>
N_libD == <<"l","i","b","/","D",".","j","a","r">>

\* the order a jar lists its entries in
NameOrder == <<N_x, N_AppClass, ManifestName, N_metainfo, N_confmf, N_libD>>

JarNames == {NameOrder[i] : i \in 1..Len(NameOrder)}

BootPath == <<"b","o","o","t",".","j","a","r">>
MainPath == <<"o","u","t","/","M",".","j","a","r">>
DepPaths == { <<"a","/","D",".","j","a","r">>, <<"b","/","D",".","j","a","r">> }

JarFiles == {BootPath, MainPath} \cup DepPaths

MainClasses == {"App", "pkg.Main"}

RECURSIVE SeqsUpTo(_, _)
SeqsUpTo(S, n) ==
    IF n = 0 THEN {<<>>}
    ELSE LET shorter == SeqsUpTo(S, n - 1)
         IN shorter \cup {Append(s, x) : s \in shorter, x \in S}

RECURSIVE SubsetsUpTo(_, _)
SubsetsUpTo(S, k) ==
    IF k = 0 THEN {{}}
    ELSE LET smaller == SubsetsUpTo(S, k - 1)
         IN smaller \cup {s \cup {x} : s \in smaller, x \in S}

Range(s) == {s[i] : i \in 1..Len(s)}

\* zipfile.ZipFile(jar, 'r').namelist()
namelist(jar) == SelectSeq(NameOrder, LAMBDA n : n \in jarfs[jar])

\* the bytes of one member of a jar: members of different jars differ
zip_read(jar, name) == [kind |-> "member", jar |-> jar, entry |-> name, text |-> <<>>]

\* the bytes of a whole jar file
file_bytes(jar) == [kind |-> "file", jar |-> jar, entry |-> <<>>, text |-> <<>>]

text_bytes(lines) == [kind |-> "text", jar |-> <<>>, entry |-> <<>>, text |-> lines]

ZipEntry(name, data) == [name |-> name, data |-> data]

----------------------------------------------------------------------------
(* generate_one_jar *)

JarInit ==
    /\ bootjar = BootPath
    /\ main_jar = MainPath
    /\ main_class \in MainClasses
    /\ jars \in SeqsUpTo(DepPaths, MaxDeps)
    /\ \E held \in SubsetsUpTo(({bootjar, main_jar} \cup Range(jars)) \X JarNames,
                               MaxEntries) :
          jarfs = [p \in JarFiles |-> {n \in JarNames : <<p, n>> \in held}]
    /\ onejar = <<>>
    /\ jar_path_set = {}
    /\ pcJar = "boot"
    /\ jarIdx = 0

\* the test of line 309 without lower(): a manifest named in capitals passes
IsBootManifest_CaseSensitive(name) == endswith(name, S_manifest_mf)

\* line 309: the boot jar's manifest is not copied
IsBootManifest(name) == endswith(lower(name), S_manifest_mf)

\* line 326: class files and META-INF stay inside the nested jars
IsSkippedResource(name) ==
    endswith(name, S_dot_class) \/ startswith(upper(name), S_META_INF)

\* the test of line 328 always finding the name new
IsSeen_Never(name, seen) == FALSE

\* line 328
IsSeen(name, seen) == name \in seen

RECURSIVE copy_boot(_, _, _)
copy_boot(name_list, out, seen) ==
    IF name_list = <<>> THEN [out |-> out, seen |-> seen]
    ELSE LET name == Head(name_list)
         IN IF ~IsBootManifest(name)
            THEN copy_boot(Tail(name_list),
                           Append(out, ZipEntry(name, zip_read(bootjar, name))),
                           seen \cup {name})
            ELSE copy_boot(Tail(name_list), out, seen)

RECURSIVE copy_resources(_, _, _, _)
copy_resources(jar, name_list, out, seen) ==
    IF name_list = <<>> THEN [out |-> out, seen |-> seen]
    ELSE LET name == Head(name_list)
         IN IF IsSkippedResource(name) \/ IsSeen(name, seen)
            THEN copy_resources(jar, Tail(name_list), out, seen)
            ELSE copy_resources(jar, Tail(name_list),
                                Append(out, ZipEntry(name, zip_read(jar, name))),
                                seen \cup {name})

\* lines 305-312
CopyBootEntries ==
    /\ pcJar = "boot"
    /\ LET r == copy_boot(namelist(bootjar), onejar, jar_path_set)
       IN /\ onejar' = r.out
          /\ jar_path_set' = r.seen
    /\ pcJar' = "main"
    /\ UNCHANGED <<jarfs, bootjar, main_class, main_jar, jars, jarIdx>>
    /\ UNCHANGED NotJar

\* lines 315-316
WriteMainJar ==
    /\ pcJar = "main"
    /\ onejar' = Append(onejar, ZipEntry(path_join(S_main, basename(main_jar)),
                                         file_bytes(main_jar)))
    /\ pcJar' = IF jars = <<>> THEN "resources" ELSE "deps"
    /\ jarIdx' = 1
    /\ UNCHANGED <<jarfs, bootjar, main_class, main_jar, jars, jar_path_set>>
    /\ UNCHANGED NotJar

\* lines 317-319, one dependency
WriteDepJar ==
    /\ pcJar = "deps"
    /\ LET dep == jars[jarIdx]
           dep_name == basename(dep)
       IN onejar' = Append(onejar, ZipEntry(path_join(S_lib, dep_name), file_bytes(dep)))
    /\ IF jarIdx = Len(jars)
       THEN pcJar' = "resources" /\ jarIdx' = 1
       ELSE pcJar' = "deps" /\ jarIdx' = jarIdx + 1
    /\ UNCHANGED <<jarfs, bootjar, main_class, main_jar, jars, jar_path_set>>
    /\ UNCHANGED NotJar

\* lines 322-331, one jar of [main_jar] + jars
CopyResources ==
    /\ pcJar = "resources"
    /\ LET all == <<main_jar>> \o jars
           jar == all[jarIdx]
           r == copy_resources(jar, namelist(jar), onejar, jar_path_set)
       IN /\ onejar' = r.out
          /\ jar_path_set' = r.seen
          /\ IF jarIdx = Len(all)
             THEN pcJar' = "manifest" /\ jarIdx' = 0
             ELSE pcJar' = "resources" /\ jarIdx' = jarIdx + 1
    /\ UNCHANGED <<jarfs, bootjar, main_class, main_jar, jars>>
    /\ UNCHANGED NotJar

\* lines 335-341
WriteManifest ==
    /\ pcJar = "manifest"
    /\ onejar' = Append(onejar, ZipEntry(ManifestName, text_bytes(ManifestText(main_class))))
    /\ pcJar' = "closed"
    /\ UNCHANGED <<jarfs, bootjar, main_class, main_jar, jars, jar_path_set, jarIdx>>
    /\ UNCHANGED NotJar

JarNext ==
    \/ CopyBootEntries
    \/ WriteMainJar
    \/ WriteDepJar
    \/ CopyResources
    \/ WriteManifest

----------------------------------------------------------------------------
(* generate_one_jar: the claims. *)

\* runtime, then main, then the dependencies as listed
Sources == <<bootjar, main_jar>> \o jars

\* the entries of the output that were copied out of a jar, by position
CopiesOf(n) ==
    {i \in 1..Len(onejar) : onejar[i].name = n /\ onejar[i].data.kind = "member"}

Occurrences(n) == {i \in 1..Len(Sources) : n \in jarfs[Sources[i]]}

NonClassNonMetaInf(n) ==
    /\ ~(Len(n) >= 6 /\ SubSeq(n, Len(n) - 5, Len(n)) = <<".","c","l","a","s","s">>)
    /\ ~(Len(n) >= 8 /\ upper(SubSeq(n, 1, 8)) = <<"M","E","T","A","-","I","N","F">>)

EndsInManifestMf(n) ==
    /\ Len(n) >= 11
    /\ lower(SubSeq(n, Len(n) - 10, Len(n))) = <<"m","a","n","i","f","e","s","t",".","m","f">>

UnderMetaInf(n) ==
    /\ Len(n) >= 9
    /\ upper(SubSeq(n, 1, 9)) = <<"M","E","T","A","-","I","N","F","/">>

Earliest(S) == CHOOSE i \in S : \A j \in S : i <= j

\* C1 as stated: a resource name that occurs in more than one source is copied
\* to the output once, with the content of the earliest source it occurs in
\* (runtime, then main, then the dependencies as listed).
C1_EarliestSourceWins ==
    pcJar = "closed" =>
        \A n \in JarNames :
            (NonClassNonMetaInf(n) /\ Cardinality(Occurrences(n)) > 1) =>
                /\ Cardinality(CopiesOf(n)) = 1
                /\ \A i \in CopiesOf(n) :
                      onejar[i].data = zip_read(Sources[Earliest(Occurrences(n))], n)

\* the sources that offer n: the boot jar offers no name ending in manifest.mf
Offers(n) == {i \in Occurrences(n) : i = 1 => ~EndsInManifestMf(n)}

\* C1 amended: a resource name that occurs in more than one source is copied to
\* the output once, with the content of the earliest source that offers it,
\* where the boot jar offers only names that do not end in manifest.mf.
C1_EarliestOfferingSourceWins ==
    pcJar = "closed" =>
        \A n \in JarNames :
            (NonClassNonMetaInf(n) /\ Cardinality(Occurrences(n)) > 1) =>
                /\ Cardinality(CopiesOf(n)) = 1
                /\ \A i \in CopiesOf(n) :
                      onejar[i].data = zip_read(Sources[Earliest(Offers(n))], n)

\* a finished merge in which boot, main and a dependency all hold the resource x
C1_Witness ==
    /\ pcJar = "closed"
    /\ Len(jars) >= 1
    /\ N_x \in jarfs[bootjar] /\ N_x \in jarfs[main_jar] /\ N_x \in jarfs[jars[1]]
    /\ CopiesOf(N_x) # {}

\* C5: every entry of the main and dependency jars that is not a class file and
\* not under META-INF/ is at the root of the output and marked seen, and no
\* class file and no entry under META-INF/ of those jars is copied there.
C5_ResourcesCopiedClassesKept ==
    pcJar = "closed" =>
        \A k \in 2..Len(Sources) : \A n \in jarfs[Sources[k]] :
            LET isClass == Len(n) >= 6
                           /\ SubSeq(n, Len(n) - 5, Len(n)) = <<".","c","l","a","s","s">>
                fromHere == \E i \in CopiesOf(n) : onejar[i].data.jar = Sources[k]
            IN /\ (~isClass /\ ~UnderMetaInf(n)) => (n \in jar_path_set /\ CopiesOf(n) # {})
               /\ (isClass \/ UnderMetaInf(n)) => ~fromHere

\* C9: the output has one META-INF/MANIFEST.MF, its last entry, holding the
\* synthesized manifest that names the boot loader and the entry class and ends
\* with a blank line; no manifest of the boot, main or dependency jars is
\* copied, and every other boot entry is copied and marked seen.
C9_OneSynthesizedManifest ==
    pcJar = "closed" =>
        LET mf == <<"M","E","T","A","-","I","N","F","/","M","A","N","I","F","E","S","T",".","M","F">>
            last == onejar[Len(onejar)]
        IN /\ Cardinality({i \in 1..Len(onejar) : onejar[i].name = mf}) = 1
           /\ last.name = mf
           /\ last.data.kind = "text"
           /\ Len(last.data.text) = 5
           /\ last.data.text[2] = "Main-Class: com.simontuffs.onejar.Boot"
           /\ last.data.text[3] = "One-Jar-Main-Class: " \o main_class
           /\ last.data.text[4] = "" /\ last.data.text[5] = ""
           /\ \A i \in 1..Len(onejar) :
                 onejar[i].data.kind = "member" =>
                    /\ onejar[i].data.jar = bootjar => ~EndsInManifestMf(onejar[i].name)
                    /\ upper(onejar[i].name) # mf
           /\ \A n \in jarfs[bootjar] :
                 ~EndsInManifestMf(n) =>
                    /\ n \in jar_path_set
                    /\ \E i \in CopiesOf(n) : onejar[i].data = zip_read(bootjar, n)

\* a finished merge whose boot jar holds a manifest and another entry and whose
\* main jar holds a manifest too
C9_Witness ==
    /\ pcJar = "closed"
    /\ ManifestName \in jarfs[bootjar] /\ N_x \in jarfs[bootjar]
    /\ ManifestName \in jarfs[main_jar]

\* C10: no two entries of the output jar have the same name.
C10_NoDuplicateNames ==
    \A i, j \in 1..Len(onejar) : i # j => onejar[i].name # onejar[j].name

----------------------------------------------------------------------------
(* generate_package_entry: the literals of the code and the inputs. *)

_PACKAGE_MANIFEST == <<"M","A","N","I","F","E","S","T",".","T","X","T">>

S_dot_zip == <<".","z","i","p">>
S_tar == <<"t","a","r">>
S_tar_gz == <<"t","a","r",".","g","z">>
S_tgz == <<"t","g","z">>
S_tar_bz2 == <<"t","a","r",".","b","z","2">>
S_tbz == <<"t","b","z">>
S_dot_MANIFEST == <<".","M","A","N","I","F","E","S","T">>

TarSuffixes == {S_tar, S_tar_gz, S_tgz, S_tar_bz2, S_tbz}

_TAR_WRITE_MODES ==
    [suffix \in TarSuffixes |->
        CASE suffix = S_tar -> "w"
          [] suffix \in {S_tar_gz, S_tgz} -> "w:gz"
          [] OTHER -> "w:bz2"]

\* the output paths tried: one per recognized suffix, and one with none
OutPaths == { <<"o">> \o S_dot_zip } \cup { <<"o",".">> \o t : t \in TarSuffixes }
            \cup { <<"o",".","r","a","r">> }

PkgSrcFiles == { <<"s","1">>, <<"s","2">> }
PkgDestinations == { <<"d","1">>, <<"d","2">>, _PACKAGE_MANIFEST }
PkgContents == { <<1>>, <<2>> }

PkgFiles == PkgSrcFiles \cup OutPaths \cup {p \o S_dot_MANIFEST : p \in OutPaths}

Absent == [kind |-> "absent", body |-> <<>>]
BytesFile(b) == [kind |-> "bytes", body |-> b]
TextFile(segments) == [kind |-> "text", body |-> segments]
ArchiveFile(a) == [kind |-> "archive", body |-> a]

\* blade_util.md5sum_file: the digest of a file's bytes
md5sum(content) == [md5 |-> content.body]

\* a text is the sequence of its segments between line feeds
EmptySegment == <<>>

\* '\n'.join(lines)
str_join(lines) == IF lines = <<>> THEN <<EmptySegment>> ELSE lines

\* text + '\n'
add_newline(text) == Append(text, EmptySegment)

----------------------------------------------------------------------------
(* generate_package_entry *)

\* lines 108-113
path == pkg_args[1]
manifest_args == Tail(pkg_args)
middle == Len(manifest_args) \div 2
sources == SubSeq(manifest_args, 1, middle)
destinations == SubSeq(manifest_args, middle + 1, Len(manifest_args))

PkgInit ==
    /\ \E p \in OutPaths, n \in 0..MaxPairs :
         \E srcs \in [1..n -> PkgSrcFiles], dsts \in [1..n -> PkgDestinations],
            extra \in {<<>>, << <<"d","1">> >>} :
              pkg_args = <<p>> \o srcs \o dsts \o extra
    /\ \E held \in [PkgSrcFiles -> PkgContents] :
         pkgfs = [f \in PkgFiles |-> IF f \in PkgSrcFiles THEN BytesFile(held[f]) ELSE Absent]
    /\ pkg_archive = [format |-> "none", entries |-> <<>>]
    /\ pkg_manifest = <<>>
    /\ pkg_suffix = <<>>
    /\ pcPkg = "entry"
    /\ pkgIdx = 0

\* line 75 hashing the first source for every line
ManifestLine_FirstSource(s, d) == <<md5sum(pkgfs[pkg_args[2]]), d>>

\* line 75: the manifest line of one source
ManifestLine(s, d) == <<md5sum(pkgfs[s]), d>>

\* lines 117-120: the suffix the loop over the dictionary's keys ends with is
\* the key that matched or, when none matched, the last key the dictionary
\* yields, whichever that is
LoopSuffixes ==
    IF \E t \in TarSuffixes : endswith(path, t)
    THEN {t \in TarSuffixes : endswith(path, t)}
    ELSE TarSuffixes

\* line 110: the assertion fails on an odd number of arguments
RejectArguments ==
    /\ pcPkg = "entry"
    /\ Len(manifest_args) % 2 # 0
    /\ pcPkg' = "failed"
    /\ UNCHANGED <<pkgfs, pkg_args, pkg_archive, pkg_manifest, pkg_suffix, pkgIdx>>
    /\ UNCHANGED NotPkg

\* lines 114-115 and 80
OpenZip ==
    /\ pcPkg = "entry"
    /\ Len(manifest_args) % 2 = 0
    /\ endswith(path, S_dot_zip)
    /\ pkg_archive' = [format |-> "zip", entries |-> <<>>]
    /\ pkgfs' = [pkgfs EXCEPT ![path] = ArchiveFile(pkg_archive')]
    /\ pcPkg' = IF sources = <<>> THEN "finish" ELSE "sources"
    /\ pkgIdx' = 1
    /\ UNCHANGED <<pkg_args, pkg_manifest, pkg_suffix>>
    /\ UNCHANGED NotPkg

\* lines 116-120 and 96-97
OpenTar ==
    /\ pcPkg = "entry"
    /\ Len(manifest_args) % 2 = 0
    /\ ~endswith(path, S_dot_zip)
    /\ \E suffix \in LoopSuffixes :
         /\ pkg_suffix' = suffix
         /\ pkg_archive' = [format |-> _TAR_WRITE_MODES[suffix], entries |-> <<>>]
    /\ pkgfs' = [pkgfs EXCEPT ![path] = ArchiveFile(pkg_archive')]
    /\ pcPkg' = IF sources = <<>> THEN "finish" ELSE "sources"
    /\ pkgIdx' = 1
    /\ UNCHANGED <<pkg_args, pkg_manifest>>
    /\ UNCHANGED NotPkg

\* lines 73-75, one source: zip.write or tar.add, then the manifest line
ArchiveSource ==
    /\ pcPkg = "sources"
    /\ LET s == sources[pkgIdx]
           d == destinations[pkgIdx]
       IN /\ pkg_archive' = [pkg_archive EXCEPT
                                !.entries = Append(@, [name |-> d, data |-> pkgfs[s]])]
          /\ pkg_manifest' = Append(pkg_manifest, ManifestLine(s, d))
    /\ pkgfs' = [pkgfs EXCEPT ![path] = ArchiveFile(pkg_archive')]
    /\ IF pkgIdx = Len(sources)
       THEN pcPkg' = "finish" /\ pkgIdx' = 0
       ELSE pcPkg' = "sources" /\ pkgIdx' = pkgIdx + 1
    /\ UNCHANGED <<pkg_args, pkg_suffix>>
    /\ UNCHANGED NotPkg

\* lines 82-83
FinishZip ==
    /\ pcPkg = "finish"
    /\ pkg_archive.format = "zip"
    /\ LET text == add_newline(str_join(pkg_manifest))
       IN pkg_archive' = [pkg_archive EXCEPT
                             !.entries = Append(@, [name |-> _PACKAGE_MANIFEST,
                                                    data |-> TextFile(text)])]
    /\ pkgfs' = [pkgfs EXCEPT ![path] = ArchiveFile(pkg_archive')]
    /\ pcPkg' = "done"
    /\ UNCHANGED <<pkg_args, pkg_manifest, pkg_suffix, pkgIdx>>
    /\ UNCHANGED NotPkg

\* lines 99-104
FinishTar ==
    /\ pcPkg = "finish"
    /\ pkg_archive.format # "zip"
    /\ LET manifest_path == path \o S_dot_MANIFEST
           text == add_newline(add_newline(str_join(pkg_manifest)))
           written == [pkgfs EXCEPT ![manifest_path] = TextFile(text)]
       IN /\ pkg_archive' = [pkg_archive EXCEPT
                                !.entries = Append(@, [name |-> _PACKAGE_MANIFEST,
                                                       data |-> written[manifest_path]])]
          /\ pkgfs' = [written EXCEPT ![path] = ArchiveFile(pkg_archive')]
    /\ pcPkg' = "done"
    /\ UNCHANGED <<pkg_args, pkg_manifest, pkg_suffix, pkgIdx>>
    /\ UNCHANGED NotPkg

PkgNext ==
    \/ RejectArguments
    \/ OpenZip
    \/ OpenTar
    \/ ArchiveSource
    \/ FinishZip
    \/ FinishTar

----------------------------------------------------------------------------
(* generate_package_entry: the claims. *)

\* the segments of a text that are lines of their own, in order
NonBlank(text) == SelectSeq(text, LAMBDA seg : seg # <<>>)

\* C2: the archive holds the N sources at their destinations and then one
\* MANIFEST.TXT, whose lines are, in input order, the hash of the bytes archived
\* for a source and its destination.
C2_ArchiveAndManifest ==
    pcPkg = "done" =>
        LET N == (Len(pkg_args) - 1) \div 2
            ar == pkgfs[pkg_args[1]]
            es == ar.body.entries
        IN /\ ar.kind = "archive"
           /\ Len(es) = N + 1
           /\ \A i \in 1..N :
                 /\ es[i].name = pkg_args[1 + N + i]
                 /\ es[i].data = pkgfs[pkg_args[1 + i]]
           /\ es[N + 1].name = <<"M","A","N","I","F","E","S","T",".","T","X","T">>
           /\ es[N + 1].data.kind = "text"
           /\ NonBlank(es[N + 1].data.body) =
                 [i \in 1..N |-> << [md5 |-> es[i].data.body], es[i].name >>]

\* a finished package of two sources with different bytes
C2_Witness ==
    /\ pcPkg = "done"
    /\ Len(pkg_args) = 5
    /\ pkg_args[2] # pkg_args[3] /\ pkg_args[4] # pkg_args[5]
    /\ pkgfs[pkg_args[2]] # pkgfs[pkg_args[3]]
    /\ pkg_archive.format = "w:gz"

Recognized(p) ==
    \E t \in { <<".","z","i","p">>, <<"t","a","r">>, <<"t","a","r",".","g","z">>,
               <<"t","g","z">>, <<"t","a","r",".","b","z","2">>, <<"t","b","z">> } :
        Len(p) >= Len(t) /\ SubSeq(p, Len(p) - Len(t) + 1, Len(p)) = t

\* C3: with an output path of no recognized suffix the run fails and leaves
\* neither an archive nor a manifest side file.
C3_UnrecognizedSuffixFails ==
    ~Recognized(pkg_args[1]) =>
        /\ pcPkg # "done"
        /\ pkgfs[pkg_args[1]].kind = "absent"
        /\ pkgfs[pkg_args[1] \o <<".","M","A","N","I","F","E","S","T">>].kind = "absent"

----------------------------------------------------------------------------
(* generate_python_binary_entry: paths are sequences of components. *)

S_init_py == "__init__.py"

dirname(p) == IF p = <<>> THEN <<>> ELSE SubSeq(p, 1, Len(p) - 1)

last_component(p) == IF p = <<>> THEN "" ELSE p[Len(p)]

\* os.path.relpath(p, start): drop the common prefix, climb out of the rest of start
relpath(p, start) ==
    LET agree == {k \in 0..Len(start) :
                     k <= Len(p) /\ \A j \in 1..k : p[j] = start[j]}
        i == CHOOSE k \in agree : \A m \in agree : m <= k
    IN [j \in 1..(Len(start) - i) |-> ".."] \o SubSeq(p, i + 1, Len(p))

(* The inputs. *)

PyBases == { <<"a">>, <<"b">> }

\* the files a library may hold, relative to its base directory
PyFileOrder == << <<"pkg", "mod.py">>, <<"pkg", S_init_py>>, <<S_init_py>>,
                  <<"pkg", "sub", "m.py">>, <<"lib", "u.py">> >>

PyRelFiles == {PyFileOrder[i] : i \in 1..Len(PyFileOrder)}

MainEntries == {"main", "pkg.mod"}

\* the LibraryManifest a library-staging step wrote: its base directory and its
\* (file, digest) pairs
LibraryManifest(base, files) ==
    [base_dir |-> base,
     srcs |-> [k \in 1..Len(files) |-> <<base \o files[k], <<"md5">> \o base \o files[k]>>]]

\* the (library, source) pairs in the order the two loops visit them
RECURSIVE FlatSrcs(_, _)
FlatSrcs(libs, from) ==
    IF from > Len(libs) THEN <<>>
    ELSE [k \in 1..Len(libs[from].srcs) |->
             [base_dir |-> libs[from].base_dir, libsrc |-> libs[from].srcs[k][1]]]
         \o FlatSrcs(libs, from + 1)

(* Files and archives as sequences of byte tokens. *)

RECURSIVE NameBytes(_)
NameBytes(p) ==
    IF p = <<>> THEN <<>>
    ELSE IF Len(p) = 1 THEN <<p[1]>>
    ELSE <<p[1], "/">> \o NameBytes(Tail(p))

\* the bytes of a source file: every file has bytes of its own, with a line feed
SourceBytes(libsrc) == <<"#">> \o NameBytes(libsrc) \o <<"\n">>

\* the modification time of a source file, which no run changes
SourceMtime(libsrc) == "mtime"

PyEntry(name, data, date_time) == [name |-> name, data |-> data, date_time |-> date_time]

\* what ZipFile appends to the file for one entry
LocalRecord(e) == <<"PK34">> \o NameBytes(e.name) \o <<e.date_time>> \o e.data

RECURSIVE CentralRecords(_)
CentralRecords(es) ==
    IF es = <<>> THEN <<>>
    ELSE <<"PK12">> \o NameBytes(Head(es).name) \o <<Head(es).date_time>>
         \o CentralRecords(Tail(es))

\* what ZipFile.close appends: the central directory and its end record
CentralDirectory(es) == CentralRecords(es) \o <<"PK56", ToString(Len(es))>>

\* ZipFile.write(filename, arcname): the file's bytes under the file's time
zip_write(libsrc, arcname) == PyEntry(arcname, SourceBytes(libsrc), SourceMtime(libsrc))

\* ZipFile.writestr(arcname, data): the entry is stamped with the current time
zip_writestr(arcname, data, clock) == PyEntry(arcname, data, ToString(clock))

\* sorted(): directories in the order of their joined names
CompOrder == <<"lib", "pkg", "sub">>
CompRank(x) == CHOOSE k \in 1..Len(CompOrder) : CompOrder[k] = x

RECURSIVE PathLess(_, _)
PathLess(a, b) ==
    IF b = <<>> THEN FALSE
    ELSE IF a = <<>> THEN TRUE
    ELSE IF a[1] # b[1] THEN CompRank(a[1]) < CompRank(b[1])
    ELSE PathLess(Tail(a), Tail(b))

RECURSIVE sorted(_)
sorted(S) ==
    IF S = {} THEN <<>>
    ELSE LET least == CHOOSE a \in S : \A b \in S \ {a} : PathLess(a, b)
         IN <<least>> \o sorted(S \ {least})

----------------------------------------------------------------------------
(* generate_python_binary_entry *)

\* the basedir argument is read and never used (lines 445-447)
PyInit ==
    /\ now = 1
    /\ \E m \in MainEntries, k \in 0..MaxLibs :
         \E bases \in [1..k -> PyBases],
            held \in SubsetsUpTo((1..k) \X PyRelFiles, MaxSrcs) :
              py_args = [mainentry |-> m,
                         libs |-> [i \in 1..k |->
                                     LibraryManifest(bases[i],
                                        SelectSeq(PyFileOrder,
                                                  LAMBDA f : <<i, f>> \in held))]]
    /\ pybin = <<>>
    /\ pyfile = <<>>
    /\ dirs = {}
    /\ dirs_with_init_py = {}
    /\ zip_content = <<>>
    /\ pcPy = "start"
    /\ pyIdx = 0
    /\ py_run = 1
    /\ py_first = <<>>

\* lines 435-441
_update_init_py_dirs(arcname, ds, with_init_py) ==
    [dirs |-> ds \cup {SubSeq(arcname, 1, k) : k \in 1..(Len(arcname) - 1)},
     dirs_with_init_py |->
        IF last_component(arcname) = S_init_py
        THEN with_init_py \cup {dirname(arcname)} ELSE with_init_py]

\* lines 462-464: a marker for each directory that has none, then the root's
RECURSIVE write_markers(_, _)
write_markers(ds, clock) ==
    IF ds = <<>> THEN << zip_writestr(<<S_init_py>>, <<>>, clock) >>
    ELSE << zip_writestr(Head(ds) \o <<S_init_py>>, <<>>, clock) >>
         \o write_markers(Tail(ds), clock)

RECURSIVE LocalRecords(_)
LocalRecords(es) ==
    IF es = <<>> THEN <<>> ELSE LocalRecord(Head(es)) \o LocalRecords(Tail(es))

\* lines 472-473
bootstrap(mainentry) ==
    << "#!/bin/sh", "\n", "\n",
       "PYTHONPATH=\"$0:$PYTHONPATH\" exec python -m \"", mainentry, "\" \"$@\"", "\n" >>

\* lines 467-468: open(path, 'rb').read()
read_binary(file) == file

\* f.write on a file opened 'w' where text mode rewrites line endings
RECURSIVE crlf(_)
crlf(data) ==
    IF data = <<>> THEN <<>>
    ELSE (IF Head(data) = "\n" THEN <<"\r", "\n">> ELSE <<Head(data)>>) \o crlf(Tail(data))

write_text(file, data) == file \o crlf(data)

\* lines 474-476: f.write on a file opened 'wb'
write_binary(file, data) == file \o data

\* the time passes
Tick ==
    /\ now < MaxClock
    /\ now' = now + 1
    /\ UNCHANGED <<py_args, pybin, pyfile, dirs, dirs_with_init_py, zip_content,
                   pcPy, pyIdx, py_run, py_first>>
    /\ UNCHANGED NotPy

\* lines 448-449
OpenPybin ==
    /\ pcPy = "start"
    /\ pybin' = <<>>
    /\ pyfile' = <<>>
    /\ dirs' = {}
    /\ dirs_with_init_py' = {}
    /\ pyIdx' = 1
    /\ pcPy' = IF FlatSrcs(py_args.libs, 1) = <<>> THEN "markers" ELSE "libs"
    /\ UNCHANGED <<now, py_args, zip_content, py_run, py_first>>
    /\ UNCHANGED NotPy

\* lines 455-458, one source of one library
WriteLibSource ==
    /\ pcPy = "libs"
    /\ LET all == FlatSrcs(py_args.libs, 1)
           pylib_base_dir == all[pyIdx].base_dir
           libsrc == all[pyIdx].libsrc
           arcname == relpath(libsrc, pylib_base_dir)
           upd == _update_init_py_dirs(arcname, dirs, dirs_with_init_py)
           e == zip_write(libsrc, arcname)
       IN /\ dirs' = upd.dirs
          /\ dirs_with_init_py' = upd.dirs_with_init_py
          /\ pybin' = Append(pybin, e)
          /\ pyfile' = pyfile \o LocalRecord(e)
          /\ IF pyIdx = Len(all)
             THEN pcPy' = "markers" /\ pyIdx' = 0
             ELSE pcPy' = "libs" /\ pyIdx' = pyIdx + 1
    /\ UNCHANGED <<now, py_args, zip_content, py_run, py_first>>
    /\ UNCHANGED NotPy

\* lines 461-464
SynthesizeMarkers ==
    /\ pcPy = "markers"
    /\ LET dirs_missing_init_py == dirs \ dirs_with_init_py
           es == write_markers(sorted(dirs_missing_init_py), now)
       IN /\ pybin' = pybin \o es
          /\ pyfile' = pyfile \o LocalRecords(es)
    /\ pcPy' = "close"
    /\ UNCHANGED <<now, py_args, dirs, dirs_with_init_py, zip_content, pyIdx,
                   py_run, py_first>>
    /\ UNCHANGED NotPy

\* line 465
ClosePybin ==
    /\ pcPy = "close"
    /\ pyfile' = pyfile \o CentralDirectory(pybin)
    /\ pcPy' = "read"
    /\ UNCHANGED <<now, py_args, pybin, dirs, dirs_with_init_py, zip_content, pyIdx,
                   py_run, py_first>>
    /\ UNCHANGED NotPy

\* lines 467-469
ReadBack ==
    /\ pcPy = "read"
    /\ zip_content' = read_binary(pyfile)
    /\ pcPy' = "bootstrap"
    /\ UNCHANGED <<now, py_args, pybin, pyfile, dirs, dirs_with_init_py, pyIdx,
                   py_run, py_first>>
    /\ UNCHANGED NotPy

\* lines 472-475: opening the file for writing empties it
WriteBootstrap ==
    /\ pcPy = "bootstrap"
    /\ pyfile' = write_binary(<<>>, bootstrap(py_args.mainentry))
    /\ pcPy' = "content"
    /\ UNCHANGED <<now, py_args, pybin, dirs, dirs_with_init_py, zip_content, pyIdx,
                   py_run, py_first>>
    /\ UNCHANGED NotPy

\* lines 476-478
WriteZipContent ==
    /\ pcPy = "content"
    /\ pyfile' = write_binary(pyfile, zip_content)
    /\ pcPy' = "done"
    /\ UNCHANGED <<now, py_args, pybin, dirs, dirs_with_init_py, zip_content, pyIdx,
                   py_run, py_first>>
    /\ UNCHANGED NotPy

\* the orchestrator runs the generator again, with the same arguments and files
Rerun ==
    /\ pcPy = "done"
    /\ py_run = 1
    /\ py_run' = 2
    /\ py_first' = pyfile
    /\ pcPy' = "start"
    /\ UNCHANGED <<now, py_args, pybin, pyfile, dirs, dirs_with_init_py, zip_content,
                   pyIdx>>
    /\ UNCHANGED NotPy

PyNext ==
    \/ Tick
    \/ OpenPybin
    \/ WriteLibSource
    \/ SynthesizeMarkers
    \/ ClosePybin
    \/ ReadBack
    \/ WriteBootstrap
    \/ WriteZipContent
    \/ Rerun

----------------------------------------------------------------------------
(* generate_python_binary_entry: the claims. *)

EntriesNamed(n) == {i \in 1..Len(pybin) : pybin[i].name = n}

\* C4: every directory prefix of every archived path has exactly one
\* __init__.py entry in the archive, and the archive root has exactly one.
C4_OneMarkerPerDirectory ==
    pcPy = "done" =>
        /\ \A i \in 1..Len(pybin) : \A k \in 1..(Len(pybin[i].name) - 1) :
              Cardinality(EntriesNamed(SubSeq(pybin[i].name, 1, k) \o <<"__init__.py">>)) = 1
        /\ Cardinality(EntriesNamed(<<"__init__.py">>)) = 1

\* C6: the finished file is the bootstrap script followed by the bytes of the
\* archive as the zip writer produced them, none of them altered.
C6_BootstrapThenArchiveBytes ==
    pcPy = "done" =>
        LET header == << "#!/bin/sh", "\n", "\n",
                         "PYTHONPATH=\"$0:$PYTHONPATH\" exec python -m \"",
                         py_args.mainentry, "\" \"$@\"", "\n" >>
            archive == LocalRecords(pybin) \o CentralDirectory(pybin)
        IN /\ Len(pyfile) = Len(header) + Len(archive)
           /\ SubSeq(pyfile, 1, Len(header)) = header
           /\ SubSeq(pyfile, Len(header) + 1, Len(pyfile)) = archive

\* a finished binary of two libraries that both hold pkg/mod.py
C6_Witness ==
    /\ pcPy = "done"
    /\ Len(py_args.libs) = 2
    /\ Cardinality(EntriesNamed(<<"pkg", "mod.py">>)) = 2
    /\ Cardinality(EntriesNamed(<<"pkg", "__init__.py">>)) = 1

\* C7: a second run with the same arguments and files leaves the same bytes
\* as the first, whenever it happens.
C7_RerunIsByteIdentical ==
    (pcPy = "done" /\ py_run = 2) => pyfile = py_first

----------------------------------------------------------------------------
(* generate_resource_index *)

Digits == <<"0","1","2","3","4","5","6","7","8","9">>

IsIdentifierChar(ch) ==
    \/ \E k \in 1..26 : Uppers[k] = ch \/ Lowers[k] = ch
    \/ \E k \in 1..10 : Digits[k] = ch
    \/ ch = "_"

\* blade_util.regular_variable_name: every character that cannot be part of
\* an identifier becomes an underscore
regular_variable_name(s) ==
    [k \in 1..Len(s) |-> IF IsIdentifierChar(s[k]) THEN s[k] ELSE "_"]

\* os.path.relpath(s, root) for a file under root
res_relpath(s, root) ==
    IF startswith(s, root \o <<"/">>) THEN SubSeq(s, Len(root) + 2, Len(s)) ELSE s

S_RESOURCE_ == <<"R","E","S","O","U","R","C","E","_">>
S_RESOURCE_INDEX_ == S_RESOURCE_ \o <<"I","N","D","E","X","_">>
S_BLADE_RESOURCE_ == <<"B","L","A","D","E","_">> \o S_RESOURCE_
S_H_ == <<"_","H","_">>
S_len == <<"_","l","e","n">>

ResRoot == <<"r">>
ResName == <<"n">>
ResFiles == { <<"r","/","a",".","b">>, <<"r","/","a","_","b">>,
              <<"r","/","a","-","b">>, <<"r","/","c">> }

\* os.path.getsize
getsize(s) == Len(s)

Line(kind, symbol, name, size) ==
    [kind |-> kind, symbol |-> symbol, name |-> name, size |-> size]

full_name == regular_variable_name(path_join(res_args.path, res_args.name))
guard_name == S_BLADE_RESOURCE_ \o upper(full_name) \o S_H_
index_name == S_RESOURCE_INDEX_ \o full_name

ResInit ==
    /\ \E srcs \in SeqsUpTo(ResFiles, MaxResources) :
         res_args = [name |-> ResName, path |-> ResRoot,
                     targets |-> << <<"n",".","h">>, <<"n",".","c">> >>,
                     sources |-> srcs]
    /\ h = <<>>
    /\ c = <<>>
    /\ pcRes = "start"
    /\ resIdx = 0

\* lines 135-160
WriteProlog ==
    /\ pcRes = "start"
    /\ h' = << Line("ifndef", guard_name, <<>>, 0), Line("define", guard_name, <<>>, 0),
               Line("struct", <<>>, <<>>, 0) >>
    /\ c' = << Line("include", <<>>, res_args.targets[1], 0),
               Line("index_open", index_name, <<>>, 0) >>
    /\ pcRes' = IF res_args.sources = <<>> THEN "epilog" ELSE "entries"
    /\ resIdx' = 1
    /\ UNCHANGED res_args
    /\ UNCHANGED NotRes

\* lines 163-169, one source
EmitEntry ==
    /\ pcRes = "entries"
    /\ LET s == res_args.sources[resIdx]
           entry_var == regular_variable_name(s)
           entry_name == res_relpath(s, res_args.path)
           entry_size == getsize(s)
       IN /\ h' = h \o << Line("comment", <<>>, entry_name, 0),
                          Line("extern_data", S_RESOURCE_ \o entry_var, <<>>, entry_size),
                          Line("extern_len", S_RESOURCE_ \o entry_var \o S_len, <<>>, 0) >>
          /\ c' = Append(c, Line("row", S_RESOURCE_ \o entry_var, entry_name, entry_size))
    /\ IF resIdx = Len(res_args.sources)
       THEN pcRes' = "epilog" /\ resIdx' = 0
       ELSE pcRes' = "entries" /\ resIdx' = resIdx + 1
    /\ UNCHANGED res_args
    /\ UNCHANGED NotRes

\* lines 171-183
WriteEpilog ==
    /\ pcRes = "epilog"
    /\ c' = c \o << Line("index_close", <<>>, <<>>, 0),
                    Line("index_len", index_name \o S_len, <<>>, Len(res_args.sources)) >>
    /\ h' = h \o << Line("extern_index", index_name, <<>>, 0),
                    Line("extern_index_len", index_name \o S_len, <<>>, 0),
                    Line("endif", guard_name, <<>>, 0) >>
    /\ pcRes' = "done"
    /\ UNCHANGED <<res_args, resIdx>>
    /\ UNCHANGED NotRes

ResNext ==
    \/ WriteProlog
    \/ EmitEntry
    \/ WriteEpilog

----------------------------------------------------------------------------
(* generate_resource_index: the claims. *)

\* C8: for a list of different resource files, the generator rejects the spec
\* (it never reaches the end) or the files it writes declare no symbol twice
\* and hold no two index rows with the same symbol.
C8_NoDuplicateSymbols ==
    (/\ pcRes = "done"
     /\ \A i, j \in 1..Len(res_args.sources) :
           i # j => res_args.sources[i] # res_args.sources[j]) =>
        /\ \A i, j \in 1..Len(h) :
              (i # j /\ h[i].kind = h[j].kind
                     /\ h[i].kind \in {"extern_data", "extern_len"}) =>
                 h[i].symbol # h[j].symbol
        /\ \A i, j \in 1..Len(c) :
              (i # j /\ c[i].kind = "row" /\ c[j].kind = "row") =>
                 c[i].symbol # c[j].symbol

----------------------------------------------------------------------------
(* The specifications: one generator runs, the others are not started. *)

Idle == "idle"

JarIdle ==
    /\ jarfs = Idle /\ bootjar = Idle /\ main_class = Idle /\ main_jar = Idle
    /\ jars = Idle /\ onejar = Idle /\ jar_path_set = Idle /\ pcJar = Idle
    /\ jarIdx = Idle

PkgIdle ==
    /\ pkgfs = Idle /\ pkg_args = Idle /\ pkg_archive = Idle /\ pkg_manifest = Idle
    /\ pkg_suffix = Idle /\ pcPkg = Idle /\ pkgIdx = Idle

PyIdle ==
    /\ now = Idle /\ py_args = Idle /\ pybin = Idle /\ pyfile = Idle /\ dirs = Idle
    /\ dirs_with_init_py = Idle /\ zip_content = Idle /\ pcPy = Idle /\ pyIdx = Idle
    /\ py_run = Idle /\ py_first = Idle

ResIdle ==
    /\ res_args = Idle /\ h = Idle /\ c = Idle /\ pcRes = Idle /\ resIdx = Idle

InitJar == JarInit /\ PkgIdle /\ PyIdle /\ ResIdle

SpecJar == InitJar /\ [][JarNext]_vars

InitPkg == PkgInit /\ JarIdle /\ PyIdle /\ ResIdle

SpecPkg == InitPkg /\ [][PkgNext]_vars

InitPy == PyInit /\ JarIdle /\ PkgIdle /\ ResIdle

SpecPy == InitPy /\ [][PyNext]_vars

InitRes == ResInit /\ JarIdle /\ PkgIdle /\ PyIdle

SpecRes == InitRes /\ [][ResNext]_vars

====
